---- MODULE Spec2Model ----
(***************************************************************************)
(* Model of get_transcript.py: a command-line program that extracts a      *)
(* YouTube video identifier from a URL, asks the external transcript       *)
(* service for the captions of that video and prints one JSON object.      *)
(*                                                                         *)
(* Python strings are modelled as sequences of one-character strings, so   *)
(* that parsing (urlparse, parse_qs, slicing, split, startswith) is        *)
(* computed character by character as the code computes it.                *)
(***************************************************************************)
EXTENDS Integers, Sequences, FiniteSets, TLC

(***************************************************************************)
(* Bounds of the model.                                                    *)
(***************************************************************************)
\* longest identifier X put into a URL
MaxIdLen == 2
\* longest transcript the external service returns
MaxSegs == 2
\* largest number of command-line arguments after the program name
MaxArgs == 2

(***************************************************************************)
(* Python values.                                                          *)
(***************************************************************************)
\* None is a value no Python string equals: no character is "<None>"
None == <<"<None>">>
\* outcome of a call: a returned value or a raised exception
Ret(v) == [kind |-> "return", val |-> v]
Raise(t, a) == [kind |-> "raise", type |-> t, arg |-> a]

(***************************************************************************)
(* String primitives (str.find, slicing, str.split, str.partition, ...).   *)
(* Positions are 1-based here; 0 plays the part of Python's -1.            *)
(***************************************************************************)
Min(S) == CHOOSE x \in S : \A y \in S : x <= y
Max(S) == CHOOSE x \in S : \A y \in S : x >= y

\* s[i-1:] of Python, i.e. the suffix starting at the 1-based position i
From(s, i) == IF i > Len(s) THEN <<>> ELSE SubSeq(s, i, Len(s))
\* s[:i-1] of Python, the prefix that ends before position i
Before(s, i) == IF i <= 1 THEN <<>> ELSE SubSeq(s, 1, Min({i - 1, Len(s)}))

\* c in s
Contains(s, c) == \E i \in 1..Len(s) : s[i] = c
\* s.find(c), searching from position start; 0 when absent
FindFrom(s, c, start) ==
  LET hits == {i \in start..Len(s) : s[i] = c}
  IN IF hits = {} THEN 0 ELSE Min(hits)
Find(s, c) == FindFrom(s, c, 1)
\* s.rfind(c); 0 when absent
RFind(s, c) ==
  LET hits == {i \in 1..Len(s) : s[i] = c}
  IN IF hits = {} THEN 0 ELSE Max(hits)

\* s.startswith(p)
StartsWith(s, p) == Len(s) >= Len(p) /\ SubSeq(s, 1, Len(p)) = p

\* s.split(c): the list of the pieces between the occurrences of c
RECURSIVE Split(_, _)
Split(s, c) ==
  LET i == Find(s, c)
  IN IF i = 0 THEN <<s>>
     ELSE <<Before(s, i)>> \o Split(From(s, i + 1), c)

\* s.split(c, 1): at most one cut, at the first occurrence of c
Split1(s, c) ==
  LET i == Find(s, c)
  IN IF i = 0 THEN <<s>> ELSE <<Before(s, i), From(s, i + 1)>>

\* s.partition(c): <<head, sep, tail>>
Partition(s, c) ==
  LET i == Find(s, c)
  IN IF i = 0 THEN <<s, <<>>, <<>>>>
     ELSE <<Before(s, i), <<c>>, From(s, i + 1)>>

\* s.rpartition(c): <<head, sep, tail>>, cut at the last occurrence
RPartition(s, c) ==
  LET i == RFind(s, c)
  IN IF i = 0 THEN <<<<>>, <<>>, s>>
     ELSE <<Before(s, i), <<c>>, From(s, i + 1)>>

\* s.replace(a, b) for single characters
Replace(s, a, b) == [i \in 1..Len(s) |-> IF s[i] = a THEN b ELSE s[i]]

LowerLetters ==
  <<"a","b","c","d","e","f","g","h","i","j","k","l","m",
    "n","o","p","q","r","s","t","u","v","w","x","y","z">>
UpperLetters ==
  <<"A","B","C","D","E","F","G","H","I","J","K","L","M",
    "N","O","P","Q","R","S","T","U","V","W","X","Y","Z">>
Digits == {"0","1","2","3","4","5","6","7","8","9"}
Range(f) == {f[i] : i \in DOMAIN f}
IsAlpha(c) == c \in Range(LowerLetters) \cup Range(UpperLetters)

LowerChar(c) ==
  IF c \in Range(UpperLetters)
  THEN LowerLetters[CHOOSE i \in 1..26 : UpperLetters[i] = c]
  ELSE c
\* s.lower()
Lower(s) == [i \in 1..Len(s) |-> LowerChar(s[i])]

(***************************************************************************)
(* urllib.parse.urlparse, as far as extract_video_id observes it: the      *)
(* fields hostname, path and query, or the ValueError it raises.           *)
(***************************************************************************)
\* characters a URL scheme may consist of
IsSchemeChar(c) == IsAlpha(c) \/ c \in Digits \/ c \in {"+", "-", "."}

\* the URL without its "scheme:" prefix, when it has one
StripScheme(url) ==
  LET i == Find(url, ":")
  IN IF /\ i > 1
        /\ IsAlpha(url[1])
        /\ \A k \in 1..(i - 1) : IsSchemeChar(url[k])
     THEN From(url, i + 1)
     ELSE url

\* _splitnetloc(url, 2): the netloc ends at the first of "/", "?", "#"
SplitNetloc(url) ==
  LET ends == {i \in 3..Len(url) : url[i] \in {"/", "?", "#"}}
      delim == IF ends = {} THEN Len(url) + 1 ELSE Min(ends)
  IN <<IF delim <= 3 THEN <<>> ELSE SubSeq(url, 3, delim - 1), From(url, delim)>>

\* SplitResult.hostname
Hostname(netloc) ==
  LET hostinfo == RPartition(netloc, "@")[3]
      br == Partition(hostinfo, "[")
      host == IF br[2] # <<>>
              THEN Partition(br[3], "]")[1]
              ELSE Partition(hostinfo, ":")[1]
      zone == Partition(host, "%")
  IN IF host = <<>> THEN None
     ELSE Lower(zone[1]) \o zone[2] \o zone[3]

urlparse(url) ==
  LET u1 == StripScheme(url)
      hasNetloc == Len(u1) >= 2 /\ SubSeq(u1, 1, 2) = <<"/", "/">>
      nl == IF hasNetloc THEN SplitNetloc(u1) ELSE <<<<>>, u1>>
      netloc == nl[1]
      u2 == Split1(nl[2], "#")[1]
      pq == Split1(u2, "?")
  IN IF Contains(netloc, "[") # Contains(netloc, "]")
     THEN Raise("ValueError", <<"Invalid IPv6 URL">>)
     ELSE Ret([hostname |-> Hostname(netloc),
               path |-> pq[1],
               query |-> IF Len(pq) = 2 THEN pq[2] ELSE <<>>])

(***************************************************************************)
(* urllib.parse.parse_qs(query)["v"][0]                                    *)
(***************************************************************************)
\* parse_qsl: the <<name, value>> pairs of the query, blank values dropped
RECURSIVE PairsOf(_)
PairsOf(fields) ==
  IF fields = <<>> THEN <<>>
  ELSE LET nv == Split1(Head(fields), "=")
           rest == PairsOf(Tail(fields))
       IN IF Len(nv) = 2 /\ nv[2] # <<>>
          THEN <<<<Replace(nv[1], "+", " "), Replace(nv[2], "+", " ")>>>> \o rest
          ELSE rest
parse_qsl(query) == PairsOf(Split(query, "&"))

\* parse_qs(query)[name][0]: the first value given for name, or KeyError
parse_qs_first(query, name) ==
  LET pairs == parse_qsl(query)
      hits == {i \in 1..Len(pairs) : pairs[i][1] = name}
  IN IF hits = {} THEN Raise("KeyError", name)
     ELSE Ret(pairs[Min(hits)][2])

(***************************************************************************)
(* extract_video_id(url)                                                   *)
(***************************************************************************)
YOUTU_BE == <<"y","o","u","t","u",".","b","e">>
YOUTUBE_COM == <<"y","o","u","t","u","b","e",".","c","o","m">>
WWW == <<"w","w","w",".">>
WATCH == <<"/","w","a","t","c","h">>
EMBED == <<"/","e","m","b","e","d","/">>
V == <<"/","v","/">>

\* a slip: the index is one too small, which picks "embed" or "v" itself
PathSegment_off_by_one(path) == Split(path, "/")[2]
\* parsed.path.split('/')[2]
PathSegment(path) == Split(path, "/")[3]

extract_video_id(url) ==
  LET p == urlparse(url)
  IN IF p.kind = "raise" THEN p
     ELSE LET parsed == p.val
          IN IF parsed.hostname \in {YOUTU_BE, WWW \o YOUTU_BE}
             THEN Ret(From(parsed.path, 2))
             ELSE IF parsed.hostname \in {YOUTUBE_COM, WWW \o YOUTUBE_COM}
             THEN IF parsed.path = WATCH
                  THEN parse_qs_first(parsed.query, <<"v">>)
                  ELSE IF StartsWith(parsed.path, EMBED)
                  THEN Ret(PathSegment(parsed.path))
                  ELSE IF StartsWith(parsed.path, V)
                  THEN Ret(PathSegment(parsed.path))
                  ELSE Ret(None)
             ELSE Ret(None)

(***************************************************************************)
(* Python dicts are sequences of <<key, value>> pairs in insertion order.  *)
(* A text is a sequence of characters or of longer chunks of characters.   *)
(***************************************************************************)
HasKey(d, k) == \E i \in 1..Len(d) : d[i][1] = k
Get(d, k) == d[CHOOSE i \in 1..Len(d) : d[i][1] = k][2]

\* a slip: the name of the exception class instead of its message
str_class_name(e) == <<e.type>>
\* str(e): the message of the exception; a KeyError shows the repr of its key
str(e) ==
  IF e.type = "KeyError" THEN <<"'">> \o e.arg \o <<"'">> ELSE e.arg

\* a slip: a handler that lets the KeyError of a missing key through
Catches_not_KeyError(e) == e.type \in {"ValueError", "RequestException",
   "TranscriptsDisabled", "VideoUnavailable", "TooManyRequests"}
\* "except Exception" catches every exception class derived from Exception
Catches(e) == e.type \in {"ValueError", "KeyError", "RequestException",
   "TranscriptsDisabled", "VideoUnavailable", "TooManyRequests"}

\* slips: a test for the empty string only, and a test "is None" only
Falsy_empty_only(v) == v = <<>>
Falsy_None_only(v) == v = None
\* "not video_id": None and the empty string are falsy
Falsy(v) == v = None \/ v = <<>>

INVALID_URL == <<"Invalid YouTube URL">>
USAGE == <<"Usage: get_transcript.py <youtube_url>">>

\* a slip: the first segment of the transcript is lost
Success_drops_segment(transcript, vid) ==
  <<<<"success", TRUE>>,
    <<"transcript", IF transcript = <<>> THEN <<>> ELSE Tail(transcript)>>,
    <<"video_id", vid>>>>
\* the dict of lines 39-43
Success(transcript, vid) ==
  <<<<"success", TRUE>>, <<"transcript", transcript>>, <<"video_id", vid>>>>
\* the dict of lines 46-49
Failure(e) == <<<<"success", FALSE>>, <<"error", str(e)>>>>
\* the dict of line 33
InvalidUrl == <<<<"error", INVALID_URL>>>>

(***************************************************************************)
(* json.dumps, producing the output text as a sequence of tokens.  In the  *)
(* dicts this program builds the key decides the type of the value.        *)
(***************************************************************************)
RECURSIVE Escape(_)
Escape(s) ==
  IF s = <<>> THEN <<>>
  ELSE (IF Head(s) \in {"\"", "\\"} THEN <<"\\", Head(s)>> ELSE <<Head(s)>>)
       \o Escape(Tail(s))
json_str(s) == <<"\"">> \o Escape(s) \o <<"\"">>

RECURSIVE json_dict_items(_)
RECURSIVE json_list_items(_)

json_value(k, v) ==
  IF k = "success" THEN <<IF v THEN "true" ELSE "false">>
  ELSE IF k \in {"start", "duration"} THEN <<ToString(v)>>
  ELSE IF k = "transcript" THEN <<"[">> \o json_list_items(v) \o <<"]">>
  ELSE json_str(v)

json_dict_items(d) ==
  IF d = <<>> THEN <<>>
  ELSE json_str(<<Head(d)[1]>>) \o <<":", " ">> \o json_value(Head(d)[1], Head(d)[2])
       \o (IF Len(d) > 1 THEN <<",", " ">> ELSE <<>>)
       \o json_dict_items(Tail(d))

json_dumps(d) == <<"{">> \o json_dict_items(d) \o <<"}">>

json_list_items(xs) ==
  IF xs = <<>> THEN <<>>
  ELSE json_dumps(Head(xs))
       \o (IF Len(xs) > 1 THEN <<",", " ">> ELSE <<>>)
       \o json_list_items(Tail(xs))

(***************************************************************************)
(* Inputs: the command lines and the behaviours of the external service.   *)
(***************************************************************************)
SeqsUpTo(S, lo, hi) == UNION {[1..k -> S] : k \in lo..hi}

\* identifiers: letters of both cases and digits
IdChars == {"a", "Z", "7"}
Idents == SeqsUpTo(IdChars, 1, MaxIdLen)

HTTPS == <<"h","t","t","p","s",":","/","/">>
NOT_A_URL == <<"n","o","t"," ","a"," ","u","r","l">>
VIMEO_123 == HTTPS \o <<"v","i","m","e","o",".","c","o","m","/","1","2","3">>
EXTRA == <<"e">>

\* scheme and host parts: every host after https://, the main ones without
\* a scheme and after a bare //
Hosts ==
  {YOUTU_BE, WWW \o YOUTU_BE, YOUTUBE_COM, WWW \o YOUTUBE_COM,
   <<"Y","o","u","T","u","b","e",".","c","o","m">>,
   <<"u","@">> \o YOUTU_BE \o <<":","4","4","3">>,
   <<"m",".">> \o YOUTUBE_COM,
   <<"v","i","m","e","o",".","c","o","m">>,
   <<"[">>, YOUTU_BE \o <<"]">>, <<>>}
Origins ==
  {HTTPS \o h : h \in Hosts}
  \cup {s \o h : s \in {<<>>, <<"/","/">>}, h \in {YOUTU_BE, WWW \o YOUTUBE_COM}}

Paths(X) ==
  {<<>>, <<"/">>, <<"/">> \o X, <<"/">> \o X \o <<"/">>,
   <<"/">> \o X \o <<"/">> \o EXTRA,
   WATCH, WATCH \o <<"/">>, WATCH \o <<"/">> \o X,
   <<"/","e","m","b","e","d">>, EMBED, EMBED \o X, EMBED \o X \o <<"/">>,
   EMBED \o X \o <<"/">> \o EXTRA,
   <<"/","v">>, V, V \o X, V \o X \o <<"/">>, V \o X \o <<"/">> \o EXTRA}
\* the paths that are also tried with a query string
QueriedPaths(X) == {<<>>, WATCH, WATCH \o <<"/">>, <<"/">> \o X}
Queries(X) ==
  {<<"?","v","=">> \o X, <<"?","v","=">>, <<"?","t","=">> \o X,
   <<"?","t","=","1","&","v","=">> \o X,
   <<"?","v","=">> \o X \o <<"&","v","=">> \o EXTRA,
   <<"?","v","=">> \o X \o <<"#">> \o EXTRA,
   <<"?","v","=">> \o X \o <<"+">> \o EXTRA,
   <<"#","v","=">> \o X}

UrlsOf(X) ==
  {o \o p : o \in Origins, p \in Paths(X)}
  \cup {o \o p \o q : o \in Origins, p \in QueriedPaths(X), q \in Queries(X)}
Urls == {NOT_A_URL, VIMEO_123} \cup UNION {UrlsOf(X) : X \in Idents}

PROG == <<"get_transcript.py">>
\* the arguments of a command line that has none or several of them
ManyArgs == {NOT_A_URL, HTTPS \o YOUTU_BE \o <<"/", "a">>}
ArgLists ==
  {<<>>} \cup {<<u>> : u \in Urls} \cup SeqsUpTo(ManyArgs, 2, MaxArgs)

\* transcript segments as the service returns them: text, start, duration
Segments ==
  {<<<<"text", <<"h","i">>>>, <<"start", 0>>, <<"duration", 1>>>>,
   <<<<"text", <<"y","o">>>>, <<"start", 1>>, <<"duration", 2>>>>}
Transcripts == SeqsUpTo(Segments, 0, MaxSegs)

\* the errors the service raises: network, no captions, unavailable, rate limit
ServiceErrors ==
  {Raise("RequestException", <<"Connection refused">>),
   Raise("TranscriptsDisabled", <<"Subtitles are disabled for this video">>),
   Raise("VideoUnavailable", <<"The video is no longer available">>),
   Raise("TooManyRequests", <<"YouTube is receiving too many requests">>)}

(***************************************************************************)
(* The program.                                                            *)
(***************************************************************************)
VARIABLES
  argv,       \* sys.argv
  pc,         \* "main", "get_transcript", "service", "print", "exit"
  video_url,  \* the parameter of get_transcript
  extracted,  \* what extract_video_id(video_url) returned or raised
  video_id,   \* the local of get_transcript
  calls,      \* the arguments of the calls made to the external service
  svc,        \* what the external service returned or raised
  result,     \* the dict get_transcript returns
  stdout,     \* the lines printed
  exit_code,  \* the exit status; -1 while the process runs
  traceback   \* the exception that ended the process unhandled, if any

vars == <<argv, pc, video_url, extracted, video_id, calls, svc, result,
          stdout, exit_code, traceback>>

\* no call made yet, no exception raised yet
NoOutcome == [kind |-> "none"]
\* no dict returned yet
NoResult == <<>>

Init ==
  /\ argv \in {PROG \o args : args \in ArgLists}
  /\ pc = "main"
  /\ video_url = None
  /\ extracted = NoOutcome
  /\ video_id = None
  /\ calls = <<>>
  /\ svc = NoOutcome
  /\ result = NoResult
  /\ stdout = <<>>
  /\ exit_code = -1
  /\ traceback = NoOutcome

\* a slip: only a missing argument is refused
WrongArgCount_too_few(av) == Len(av) < 2
\* len(sys.argv) != 2
WrongArgCount(av) == Len(av) # 2

\* lines 52-54: the usage message and exit status 1
MainUsage ==
  /\ pc = "main"
  /\ WrongArgCount(argv)
  /\ stdout' = Append(stdout, json_dumps(<<<<"error", USAGE>>>>))
  /\ exit_code' = 1
  /\ pc' = "exit"
  /\ UNCHANGED <<argv, video_url, extracted, video_id, calls, svc, result,
                 traceback>>

\* line 56: the call get_transcript(sys.argv[1])
MainCall ==
  /\ pc = "main"
  /\ ~WrongArgCount(argv)
  /\ video_url' = argv[2]
  /\ pc' = "get_transcript"
  /\ UNCHANGED <<argv, extracted, video_id, calls, svc, result, stdout,
                 exit_code, traceback>>

\* lines 45-49: what becomes of an exception raised inside the try block;
\* one that the except clause does not catch ends the process with status 1
Except(e) ==
  IF Catches(e)
  THEN /\ result' = Failure(e)
       /\ pc' = "print"
       /\ UNCHANGED <<exit_code, traceback>>
  ELSE /\ traceback' = e
       /\ exit_code' = 1
       /\ pc' = "exit"
       /\ UNCHANGED result

\* lines 30-33: extraction and the check of its result
GetTranscriptExtract ==
  /\ pc = "get_transcript"
  /\ LET o == extract_video_id(video_url)
     IN /\ extracted' = o
        /\ IF o.kind = "raise"
           THEN Except(o) /\ UNCHANGED video_id
           ELSE /\ video_id' = o.val
                /\ UNCHANGED <<exit_code, traceback>>
                /\ IF Falsy(o.val)
                   THEN result' = InvalidUrl /\ pc' = "print"
                   ELSE pc' = "service" /\ UNCHANGED result
  /\ UNCHANGED <<argv, video_url, calls, svc, stdout>>

\* lines 36-43: the service returns the transcript
ServiceReturns(t) ==
  /\ pc = "service"
  /\ calls' = Append(calls, video_id)
  /\ svc' = Ret(t)
  /\ result' = Success(t, video_id)
  /\ pc' = "print"
  /\ UNCHANGED <<argv, video_url, extracted, video_id, stdout, exit_code,
                 traceback>>

\* a slip: the call is tried a second time after it failed
ServiceRaises_retries(e) ==
  /\ pc = "service"
  /\ calls' = Append(calls, video_id)
  /\ svc' = e
  /\ IF calls = <<>>
     THEN UNCHANGED <<pc, result, exit_code, traceback>>
     ELSE Except(e)
  /\ UNCHANGED <<argv, video_url, extracted, video_id, stdout>>

\* lines 36, 45-49: the service raises
ServiceRaises(e) ==
  /\ pc = "service"
  /\ calls' = Append(calls, video_id)
  /\ svc' = e
  /\ Except(e)
  /\ UNCHANGED <<argv, video_url, extracted, video_id, stdout>>

\* line 57: print the result; the process ends with status 0
PrintResult ==
  /\ pc = "print"
  /\ stdout' = Append(stdout, json_dumps(result))
  /\ exit_code' = 0
  /\ pc' = "exit"
  /\ UNCHANGED <<argv, video_url, extracted, video_id, calls, svc, result,
                 traceback>>

Next ==
  \/ MainUsage
  \/ MainCall
  \/ GetTranscriptExtract
  \/ \E t \in Transcripts : ServiceReturns(t)
  \/ \E e \in ServiceErrors : ServiceRaises(e)
  \/ PrintResult

Spec == Init /\ [][Next]_vars

(***************************************************************************)
(* Properties.                                                             *)
(***************************************************************************)
Done == pc = "exit"
Extracted == extracted # NoOutcome
YouTubeHosts == {YOUTUBE_COM, WWW \o YOUTUBE_COM}
ShortHosts == {YOUTU_BE, WWW \o YOUTU_BE}

\* C1: every error the external service raises is caught: the result is the
\* failure dict with success = false and error = the message of that error,
\* nothing propagates, and the process prints it and ends with status 0.
C1_ServiceErrorIsReported ==
  svc.kind = "raise" =>
    /\ result = <<<<"success", FALSE>>, <<"error", svc.arg>>>>
    /\ traceback = NoOutcome
    /\ Done => exit_code = 0 /\ stdout = <<json_dumps(result)>>
C1_Witness ==
  Done /\ svc.kind = "raise" /\ svc.type = "TooManyRequests" /\ exit_code = 0

\* C2: whenever extraction yields None, get_transcript returns
\* {"error": "Invalid YouTube URL"} and the service is never called.
C2_NoneIsInvalidUrl ==
  extracted = Ret(None) =>
    /\ result = <<<<"error", INVALID_URL>>>>
    /\ calls = <<>>
    /\ svc = NoOutcome
C2_Witness ==
  Done /\ extracted = Ret(None) /\ video_url = VIMEO_123

\* C3: the service is called at most once in a run, and exactly once (with
\* the extracted identifier) when a non-empty identifier was extracted; it is
\* not called again after it failed or after it succeeded.
C3_ServiceCalledOnce ==
  /\ Len(calls) <= 1
  /\ svc # NoOutcome => Len(calls) = 1
  /\ (pc \in {"print", "exit"} /\ extracted.kind = "return"
        /\ ~(extracted.val \in {None, <<>>}))
       => calls = <<extracted.val>>
C3_Witness ==
  Done /\ svc.kind = "raise" /\ Len(calls) = 1 /\ svc.type = "RequestException"

USAGE_JSON ==
  <<"{", "\"", "error", "\"", ":", " ",
    "\"", "Usage: get_transcript.py <youtube_url>", "\"", "}">>
IsJsonObject(line) == line # <<>> /\ Head(line) = "{" /\ line[Len(line)] = "}"

\* C4: the process exits with status 1 and prints exactly the usage object
\* iff the number of arguments is not one; every other run prints exactly
\* one JSON object and exits with status 0; no run ends in an unhandled fault.
C4_ExitCodes ==
  /\ traceback = NoOutcome
  /\ exit_code = 1 <=> (Done /\ Len(argv) # 2)
  /\ ~Done => exit_code = -1 /\ stdout = <<>>
  /\ Done => /\ Len(stdout) = 1
             /\ IsJsonObject(stdout[1])
             /\ Len(argv) # 2 => stdout[1] = USAGE_JSON
             /\ Len(argv) = 2 => exit_code = 0 /\ stdout[1] = json_dumps(result)
C4_Witness ==
  Done /\ Len(argv) = 3 /\ exit_code = 1 /\ stdout = <<USAGE_JSON>>

\* the canonical URL forms of the identifier X
CanonicalUrls(X) ==
  {HTTPS \o h \o WATCH \o <<"?","v","=">> \o X : h \in YouTubeHosts}
  \cup {HTTPS \o h \o <<"/">> \o X : h \in ShortHosts}
  \cup {HTTPS \o h \o EMBED \o X : h \in YouTubeHosts}
  \cup {HTTPS \o h \o V \o X : h \in YouTubeHosts}

\* C5: for every identifier X, extract_video_id returns exactly X for the
\* canonical forms watch?v=X, youtu.be/X, embed/X and v/X, with or without www.
C5_CanonicalForms ==
  Extracted =>
    \A X \in Idents : video_url \in CanonicalUrls(X) => extracted = Ret(X)
C5_Witness ==
  /\ video_url = HTTPS \o YOUTUBE_COM \o EMBED \o <<"a","Z">>
  /\ extracted = Ret(<<"a","Z">>)

\* the path-based forms of X followed by a slash or by a further segment
PathUrls(X) ==
  {HTTPS \o h \o <<"/">> \o X \o t :
     h \in ShortHosts, t \in {<<>>, <<"/">>, <<"/">> \o EXTRA}}
  \cup {HTTPS \o h \o pre \o X \o t :
     h \in YouTubeHosts, pre \in {EMBED, V},
     t \in {<<>>, <<"/">>, <<"/">> \o EXTRA}}

\* C6: for the path-based URL shapes the extracted identifier is the single
\* path segment that holds it; a trailing slash and further path segments
\* are ignored and never become part of the identifier.
C6_SingleSegment ==
  Extracted =>
    \A X \in Idents : video_url \in PathUrls(X) => extracted = Ret(X)

\* youtube.com/watch URLs without a v parameter
NoVUrls ==
  {HTTPS \o h \o WATCH \o q :
     h \in YouTubeHosts,
     q \in {<<>>} \cup {<<"?","t","=">> \o X : X \in Idents}
          \cup {<<"#","v","=">> \o X : X \in Idents}}

\* C7: for a youtube.com/watch URL without a v parameter nothing faults
\* unhandled: extraction yields None or a handled failure, the service is
\* not called, and the run prints a JSON error object and exits with 0.
C7_WatchWithoutV ==
  (Extracted /\ video_url \in NoVUrls) =>
    /\ traceback = NoOutcome
    /\ calls = <<>>
    /\ extracted = Ret(None) \/ extracted.kind = "raise"
    /\ HasKey(result, "error")
    /\ ~(HasKey(result, "success") /\ Get(result, "success"))
    /\ Done => exit_code = 0 /\ stdout = <<json_dumps(result)>>
C7_Witness ==
  /\ Done /\ exit_code = 0
  /\ video_url = HTTPS \o WWW \o YOUTUBE_COM \o WATCH
  /\ extracted.kind = "raise"

\* the URL has one of the four hosts and, on youtube.com, one of the paths
Recognized(url) ==
  LET p == urlparse(url)
  IN /\ p.kind = "return"
     /\ \/ p.val.hostname \in ShortHosts
        \/ /\ p.val.hostname \in YouTubeHosts
           /\ \/ p.val.path = WATCH
              \/ StartsWith(p.val.path, EMBED)
              \/ StartsWith(p.val.path, V)

\* C8: for every URL whose host is none of the four hosts (unrecognized
\* host, no scheme, malformed text) and every youtube.com URL with another
\* path, extraction yields None and the output is exactly
\* {"error": "Invalid YouTube URL"}, without a success key.
C8_UnrecognizedIsInvalidUrl ==
  (Extracted /\ ~Recognized(video_url)) =>
    /\ extracted = Ret(None)
    /\ result = <<<<"error", INVALID_URL>>>>
    /\ Done => stdout = <<json_dumps(<<<<"error", INVALID_URL>>>>)>>

\* C9: whenever the service returns, the result is the success dict with
\* success = true, the extracted identifier (the value passed to the service)
\* and the returned transcript unchanged; no other case gives a success dict.
C9_SuccessResult ==
  /\ svc.kind = "return" =>
       /\ result = <<<<"success", TRUE>>, <<"transcript", svc.val>>,
                     <<"video_id", extracted.val>>>>
       /\ calls = <<extracted.val>>
  /\ (HasKey(result, "success") /\ Get(result, "success"))
       => svc.kind = "return"
C9_Witness ==
  Done /\ svc.kind = "return" /\ Len(svc.val) = 2 /\ svc.val[1] # svc.val[2]

\* recognized shapes whose identifier segment is empty
EmptyIdUrls ==
  {HTTPS \o h \o p : h \in ShortHosts, p \in {<<>>, <<"/">>}}
  \cup {HTTPS \o h \o p : h \in YouTubeHosts, p \in {EMBED, V}}

\* C10: the service is never called with an empty identifier: a recognized
\* shape with an empty identifier segment gives {"error": "Invalid YouTube
\* URL"} without a call, and extraction from a path that starts with /embed/
\* or /v/ never faults on a missing segment.
C10_NoEmptyIdentifier ==
  /\ \A i \in 1..Len(calls) : calls[i] # <<>> /\ calls[i] # None
  /\ (Extracted /\ video_url \in EmptyIdUrls) =>
       /\ extracted = Ret(<<>>)
       /\ result = <<<<"error", INVALID_URL>>>>
       /\ calls = <<>>
  /\ Extracted =>
       LET p == urlparse(video_url)
       IN (/\ p.kind = "return"
           /\ p.val.hostname \in YouTubeHosts
           /\ StartsWith(p.val.path, EMBED) \/ StartsWith(p.val.path, V))
          => extracted.kind = "return"
C10_Witness ==
  Done /\ video_url = HTTPS \o YOUTUBE_COM \o EMBED /\ extracted = Ret(<<>>)
====
